---- MODULE Spec2Model ----
(***************************************************************************)
(* Model of node/narwhal/src/helpers/storage.rs: the in-memory storage of  *)
(* the memory pool (committees, rounds, certificates, batch ids and        *)
(* transmissions, with the current round and the GC round).                *)
(*                                                                         *)
(* Identifiers are hashes of the content they name, modelled as the        *)
(* content itself: a certificate id is the certificate record, a batch id  *)
(* is the batch header record.  IndexMap and IndexSet are sequences in     *)
(* insertion order; their `remove` is indexmap's swap_remove.              *)
(***************************************************************************)
EXTENDS Integers, Sequences, FiniteSets, TLC

\* ------------------------------------------------------------------ bounds
\* Largest round the current round is advanced to.
MaxRound == 3
\* Largest retention depth a store is built with.
MaxGcRounds == 2
\* Largest number of certificates held at once.
MaxCerts == 3
\* Largest number of remove_certificate calls in one execution.
MaxRemovals == 2

\* ---------------------------------------------------------------- universes
Members == {"A", "B", "C", "D"}
NonMember == "E"
Tids == {"t1", "t2"}
Payloads == {"p", "q"}
InitialRounds == {0, 1}

\* ------------------------------------------------------ IndexMap / IndexSet
Range(s) == {s[i] : i \in DOMAIN s}

Keys(m) == {m[i][1] : i \in DOMAIN m}

Has(m, k) == \E i \in DOMAIN m : m[i][1] = k

IndexOf(m, k) == CHOOSE i \in DOMAIN m : m[i][1] = k

Get(m, k) == m[IndexOf(m, k)][2]

\* IndexMap::insert: a new key is appended, an existing key keeps its place.
Put(m, k, v) ==
    IF Has(m, k) THEN [m EXCEPT ![IndexOf(m, k)] = <<k, v>>] ELSE Append(m, <<k, v>>)

\* Vec::swap_remove: the last element takes the place of the removed one.
SwapRemove(s, i) ==
    IF i = Len(s) THEN SubSeq(s, 1, Len(s) - 1)
    ELSE [SubSeq(s, 1, Len(s) - 1) EXCEPT ![i] = s[Len(s)]]

\* IndexMap::remove.
MapRemove(m, k) == IF Has(m, k) THEN SwapRemove(m, IndexOf(m, k)) ELSE m

\* IndexSet::insert.
SetInsert(s, e) == IF e \in Range(s) THEN s ELSE Append(s, e)

\* IndexSet::remove.
SetRemove(s, e) ==
    IF e \in Range(s) THEN SwapRemove(s, CHOOSE i \in DOMAIN s : s[i] = e) ELSE s

\* HashMap restricted to a key set.
Restrict(f, D) == [x \in D |-> f[x]]

\* u64::saturating_sub.
saturating_sub(a, b) == IF a > b THEN a - b ELSE 0

\* --------------------------------------------------------------- committee
\* crate::helpers::Committee, not a part of storage.rs: the round, the member
\* set (equal stake) and the 2f+1 quorum predicate.
Committee(r) == [round |-> r, members |-> Members]

is_committee_member(committee, address) == address \in committee.members

num_members(committee) == Cardinality(committee.members)

is_quorum_threshold_reached(committee, authors) ==
    LET f == (num_members(committee) - 1) \div 3
    IN  Cardinality(authors \cap committee.members) >= 2 * f + 1

to_next_round(committee) == [committee EXCEPT !.round = committee.round + 1]

\* crate::helpers::check_timestamp_for_liveness: a timestamp is classified by
\* where it lies relative to the accepted window around the wall clock.
Timestamps == {"live", "stale", "future"}

check_timestamp_for_liveness(timestamp) == timestamp = "live"

\* ------------------------------------------------------------- certificates
BatchHeader(author, round, timestamp, tids, prev) ==
    [author |-> author, round |-> round, timestamp |-> timestamp,
     transmission_ids |-> tids, previous_certificate_ids |-> prev]

BatchCertificate(header, signatures) ==
    [batch_header |-> header, signatures |-> signatures]

batch_id(header) == header

certificate_id(certificate) == certificate

cert_round(certificate) == certificate.batch_header.round

cert_author(certificate) == certificate.batch_header.author

cert_batch_id(certificate) == batch_id(certificate.batch_header)

cert_transmission_ids(certificate) == certificate.batch_header.transmission_ids

\* BatchCertificate::timestamps: the author's timestamp and the signers'.
cert_timestamps(certificate) ==
    {certificate.batch_header.timestamp}
        \cup {s.timestamp : s \in certificate.signatures}

cert_signers(certificate) == {s.signer : s \in certificate.signatures}

Triple(certificate) ==
    <<certificate_id(certificate), cert_batch_id(certificate), cert_author(certificate)>>

\* ------------------------------------------------------------ the storage
VARIABLES
    current_round,   \* AtomicU64
    committees,      \* IndexMap: round -> committee
    gc_round,        \* AtomicU64
    max_gc_rounds,   \* u64, immutable
    rounds,          \* IndexMap: round -> IndexSet of (certificate id, batch id, author)
    certificates,    \* IndexMap: certificate id -> certificate
    batch_ids,       \* IndexMap: batch id -> round
    transmissions,   \* IndexMap: transmission id -> (transmission, IndexSet of certificate ids)
    initial,         \* the storage as it was built
    aborted,         \* an expect has failed: the process is gone
    removals,        \* the calls of remove_certificate made so far
    threads,         \* the calls in progress on each thread (concurrent executions)
    rounds_readers   \* the threads holding the read lock of `rounds`

indices == <<committees, rounds, certificates, batch_ids, transmissions>>

storage == <<current_round, committees, gc_round, max_gc_rounds, rounds,
             certificates, batch_ids, transmissions>>

vars == <<current_round, committees, gc_round, max_gc_rounds, rounds, certificates,
          batch_ids, transmissions, initial, aborted, removals, threads, rounds_readers>>

\* The storage as one value.
Store ==
    [current_round |-> current_round, committees |-> committees,
     gc_round |-> gc_round, max_gc_rounds |-> max_gc_rounds, rounds |-> rounds,
     certificates |-> certificates, batch_ids |-> batch_ids,
     transmissions |-> transmissions]

\* Storage::new
new(committee, max_gc) ==
    [current_round |-> committee.round,
     committees |-> <<<<committee.round, committee>>>>,
     gc_round |-> 0, max_gc_rounds |-> max_gc, rounds |-> <<>>,
     certificates |-> <<>>, batch_ids |-> <<>>, transmissions |-> <<>>]

\* ---------------------------------------------------------------- accessors
\* Mutant of get_committee: a round that has no committee is given the one
\* stored last.
get_committee_of_any_round(cs, round) ==
    IF Has(cs, round) THEN <<Get(cs, round)>>
    ELSE IF cs = <<>> THEN <<>>
    ELSE <<[cs[Len(cs)][2] EXCEPT !.round = round]>>

\* An Option is a sequence of at most one element.
get_committee(cs, round) == IF Has(cs, round) THEN <<Get(cs, round)>> ELSE <<>>

\* Mutant of contains_certificates_for_round: no round is ever found.
round_never_held(rs, round) == FALSE

contains_certificates_for_round(rs, round) == Has(rs, round)

contains_certificate(certs, cid) == Has(certs, cid)

\* Mutant of contains_certificate_in_round_from: the author is never found.
author_never_in_round(rs, round, author) == FALSE

contains_certificate_in_round_from(rs, round, author) ==
    Has(rs, round) /\ \E e \in Range(Get(rs, round)) : e[3] = author

contains_batch(bids, bid) == Has(bids, bid)

contains_transmission(ts, tid) == Has(ts, tid)

get_transmission(ts, tid) == IF Has(ts, tid) THEN <<Get(ts, tid)[1]>> ELSE <<>>

\* Mutant of get_certificate: the lookup finds a certificate whenever one is held.
get_certificate_any(certs, cid) == IF certs = <<>> THEN <<>> ELSE <<certs[1][2]>>

get_certificate(certs, cid) == IF Has(certs, cid) THEN <<Get(certs, cid)>> ELSE <<>>

get_round_for_certificate(certs, cid) ==
    IF Has(certs, cid) THEN <<cert_round(Get(certs, cid))>> ELSE <<>>

get_round_for_batch(bids, bid) == IF Has(bids, bid) THEN <<Get(bids, bid)>> ELSE <<>>

\* The certificates of the entries, in order, those absent from `certs` skipped
\* (flat_map over Option), collected into an IndexSet.
RECURSIVE collect_certificates(_, _)
collect_certificates(entries, certs) ==
    IF entries = <<>> THEN <<>>
    ELSE LET rest == collect_certificates(SubSeq(entries, 1, Len(entries) - 1), certs)
             found == get_certificate(certs, entries[Len(entries)][1])
         IN  IF found = <<>> THEN rest ELSE SetInsert(rest, found[1])

get_certificates_for_round(rs, certs, round) ==
    IF round = 0 THEN <<>>
    ELSE IF Has(rs, round) THEN collect_certificates(Get(rs, round), certs)
    ELSE <<>>

\* ------------------------------------------------------- check_batch_header
Result(ok, err, missing) == [ok |-> ok, err |-> err, missing |-> missing]

Fail(err) == Result(FALSE, err, << >>)

\* Mutant of absent_transmission_ids: every transmission id of the header is
\* taken from the transmissions provided, held or not.
absent_transmission_ids_all(ts, header) == Range(header.transmission_ids)

\* The transmission ids of the header that storage does not hold.
absent_transmission_ids(ts, header) ==
    {tid \in Range(header.transmission_ids) : ~contains_transmission(ts, tid)}

\* One pass of the loop over the previous certificate ids: "" or the reason it
\* bails with, and the previous authors seen so far.
check_previous_certificate(certs, previous_id, previous_round, authors) ==
    LET found == get_certificate(certs, previous_id)
    IN  IF found = <<>> THEN [err |-> "missing previous certificate", authors |-> authors]
        ELSE IF cert_round(found[1]) # previous_round
             THEN [err |-> "previous certificate of another round", authors |-> authors]
        ELSE IF cert_author(found[1]) \in authors
             THEN [err |-> "duplicate previous author", authors |-> authors]
        ELSE [err |-> "", authors |-> authors \cup {cert_author(found[1])}]

RECURSIVE check_previous_certificates(_, _, _, _)
check_previous_certificates(certs, ids, previous_round, authors) ==
    IF ids = <<>> THEN [err |-> "", authors |-> authors]
    ELSE LET one == check_previous_certificate(certs, Head(ids), previous_round, authors)
         IN  IF one.err # "" THEN one
             ELSE check_previous_certificates(certs, Tail(ids), previous_round, one.authors)

\* Mutant of check_previous_round: the quorum of the previous authors is not asked for.
check_previous_round_without_quorum(S, header, previous_round) ==
    LET previous_committee == get_committee(S.committees, previous_round)
        seen == check_previous_certificates(S.certificates,
                    header.previous_certificate_ids, previous_round, {})
    IN  IF previous_committee = <<>> THEN "missing previous committee"
        ELSE IF ~contains_certificates_for_round(S.rounds, previous_round)
             THEN "missing previous round"
        ELSE IF Len(header.previous_certificate_ids) > num_members(previous_committee[1])
             THEN "too many previous certificates"
        ELSE seen.err

\* The checks of the previous round, made when it is above the GC round.
check_previous_round(S, header, previous_round) ==
    LET previous_committee == get_committee(S.committees, previous_round)
        seen == check_previous_certificates(S.certificates,
                    header.previous_certificate_ids, previous_round, {})
    IN  IF previous_committee = <<>> THEN "missing previous committee"
        ELSE IF ~contains_certificates_for_round(S.rounds, previous_round)
             THEN "missing previous round"
        ELSE IF Len(header.previous_certificate_ids) > num_members(previous_committee[1])
             THEN "too many previous certificates"
        ELSE IF seen.err # "" THEN seen.err
        ELSE IF ~is_quorum_threshold_reached(previous_committee[1], seen.authors)
             THEN "previous certificates below quorum"
        ELSE ""

\* Mutant of check_batch_header: the previous round is checked also when it is
\* the GC round.
check_batch_header_previous_at_gc_round(S, header, provided) ==
    LET round == header.round
        gc == S.gc_round
        committee == get_committee(S.committees, round)
        absent == absent_transmission_ids(S.transmissions, header)
        previous_round == saturating_sub(round, 1)
        previous == IF previous_round >= gc
                    THEN check_previous_round(S, header, previous_round) ELSE ""
    IN  IF contains_batch(S.batch_ids, batch_id(header)) THEN Fail("duplicate batch id")
        ELSE IF committee = <<>> THEN Fail("missing committee")
        ELSE IF ~is_committee_member(committee[1], header.author)
             THEN Fail("author not a member")
        ELSE IF ~check_timestamp_for_liveness(header.timestamp) THEN Fail("timestamp")
        ELSE IF ~(absent \subseteq DOMAIN provided) THEN Fail("missing transmission")
        ELSE IF previous # "" THEN Fail(previous)
        ELSE Result(TRUE, "", Restrict(provided, absent))


check_batch_header(S, header, provided) ==
    LET round == header.round
        gc == S.gc_round
        committee == get_committee(S.committees, round)
        absent == absent_transmission_ids(S.transmissions, header)
        previous_round == saturating_sub(round, 1)
        previous == IF previous_round > gc
                    THEN check_previous_round(S, header, previous_round) ELSE ""
    IN  IF contains_batch(S.batch_ids, batch_id(header)) THEN Fail("duplicate batch id")
        ELSE IF committee = <<>> THEN Fail("missing committee")
        ELSE IF ~is_committee_member(committee[1], header.author)
             THEN Fail("author not a member")
        ELSE IF ~check_timestamp_for_liveness(header.timestamp) THEN Fail("timestamp")
        ELSE IF ~(absent \subseteq DOMAIN provided) THEN Fail("missing transmission")
        ELSE IF previous # "" THEN Fail(previous)
        ELSE Result(TRUE, "", Restrict(provided, absent))

\* -------------------------------------------------------- check_certificate
\* Mutant of check_signers: the quorum of the author and the signers is not
\* asked for.
check_signers_without_quorum(cs, certificate) ==
    LET round == cert_round(certificate)
        committee == get_committee(cs, round)
    IN  IF \E t \in cert_timestamps(certificate) : ~check_timestamp_for_liveness(t)
             THEN "signer timestamp"
        ELSE IF committee = <<>> THEN "missing committee"
        ELSE IF \E s \in cert_signers(certificate) : ~is_committee_member(committee[1], s)
             THEN "signer not a member"
        ELSE ""


\* The checks on the signers, made once the header is accepted.
check_signers(cs, certificate) ==
    LET round == cert_round(certificate)
        committee == get_committee(cs, round)
        signers == {cert_author(certificate)} \cup cert_signers(certificate)
    IN  IF \E t \in cert_timestamps(certificate) : ~check_timestamp_for_liveness(t)
             THEN "signer timestamp"
        ELSE IF committee = <<>> THEN "missing committee"
        ELSE IF \E s \in cert_signers(certificate) : ~is_committee_member(committee[1], s)
             THEN "signer not a member"
        ELSE IF ~is_quorum_threshold_reached(committee[1], signers)
             THEN "signers below quorum"
        ELSE ""

\* Mutant of check_certificate: the author's other certificates of the round
\* are not looked for.
check_certificate_by_id_only(S, certificate, provided) ==
    LET header == check_batch_header(S, certificate.batch_header, provided)
        signers == check_signers(S.committees, certificate)
    IN  IF contains_certificate(S.certificates, certificate_id(certificate))
             THEN Fail("duplicate certificate id")
        ELSE IF ~header.ok THEN header
        ELSE IF signers # "" THEN Fail(signers)
        ELSE header

check_certificate(S, certificate, provided) ==
    LET round == cert_round(certificate)
        header == check_batch_header(S, certificate.batch_header, provided)
        signers == check_signers(S.committees, certificate)
    IN  IF contains_certificate(S.certificates, certificate_id(certificate))
             THEN Fail("duplicate certificate id")
        ELSE IF contains_certificate_in_round_from(S.rounds, round, cert_author(certificate))
             THEN Fail("duplicate author in round")
        ELSE IF ~header.ok THEN header
        ELSE IF signers # "" THEN Fail(signers)
        ELSE header

\* ------------------------------------------------ insert_certificate_atomic
\* Mutant of rounds_insert: the round's set is replaced by the new triple alone.
rounds_insert_replaces_round(rs, certificate) ==
    Put(rs, cert_round(certificate), <<Triple(certificate)>>)

\* rounds.write().entry(round).or_default().insert((certificate id, batch id, author))
rounds_insert(rs, certificate) ==
    LET round == cert_round(certificate)
        entries == IF Has(rs, round) THEN Get(rs, round) ELSE <<>>
    IN  Put(rs, round, SetInsert(entries, Triple(certificate)))

\* certificates.write().insert(certificate id, certificate)
certificates_insert(certs, certificate) ==
    Put(certs, certificate_id(certificate), certificate)

\* batch_ids.write().insert(batch id, round)
batch_ids_insert(bids, certificate) ==
    Put(bids, cert_batch_id(certificate), cert_round(certificate))

\* Mutant of transmissions_insert: insert in place of entry().or_insert_with(),
\* so that a transmission handed over again replaces the entry.
RECURSIVE transmissions_insert_overwrites(_, _, _, _)
transmissions_insert_overwrites(ts, cid, tids, missing) ==
    IF tids = <<>> THEN [transmissions |-> ts, aborted |-> FALSE]
    ELSE LET tid == Head(tids)
         IN  IF tid \in DOMAIN missing
             THEN transmissions_insert_overwrites(
                      Put(ts, tid, <<missing[tid], <<cid>>>>), cid, Tail(tids), missing)
             ELSE IF Has(ts, tid)
             THEN transmissions_insert_overwrites(
                      Put(ts, tid, <<Get(ts, tid)[1], SetInsert(Get(ts, tid)[2], cid)>>),
                      cid, Tail(tids), missing)
             ELSE [transmissions |-> ts, aborted |-> TRUE]

\* The loop over the transmission ids, under the write lock of `transmissions`:
\* an absent entry is made from `missing` (the expect aborts when it is not
\* there), and the certificate id joins the entry's set.
RECURSIVE transmissions_insert(_, _, _, _)
transmissions_insert(ts, cid, tids, missing) ==
    IF tids = <<>> THEN [transmissions |-> ts, aborted |-> FALSE]
    ELSE LET tid == Head(tids)
         IN  IF Has(ts, tid)
             THEN transmissions_insert(
                      Put(ts, tid, <<Get(ts, tid)[1], SetInsert(Get(ts, tid)[2], cid)>>),
                      cid, Tail(tids), missing)
             ELSE IF tid \in DOMAIN missing
             THEN transmissions_insert(
                      Append(ts, <<tid, <<missing[tid], <<cid>>>>>>),
                      cid, Tail(tids), Restrict(missing, DOMAIN missing \ {tid}))
             ELSE [transmissions |-> ts, aborted |-> TRUE]

insert_certificate_atomic(S, certificate, missing) ==
    LET done == transmissions_insert(S.transmissions, certificate_id(certificate),
                    cert_transmission_ids(certificate), missing)
    IN  [store |-> [S EXCEPT !.rounds = rounds_insert(S.rounds, certificate),
                             !.certificates = certificates_insert(S.certificates, certificate),
                             !.batch_ids = batch_ids_insert(S.batch_ids, certificate),
                             !.transmissions = done.transmissions],
         aborted |-> done.aborted]

\* --------------------------------------------------------- insert_certificate
\* Mutant of insert_certificate: the round is not compared with the GC round.
insert_certificate_unguarded(S, certificate, provided) ==
    LET checked == check_certificate(S, certificate, provided)
        done == insert_certificate_atomic(S, certificate, checked.missing)
    IN  IF ~checked.ok THEN [store |-> S, res |-> "Err", err |-> checked.err]
        ELSE IF done.aborted THEN [store |-> done.store, res |-> "abort", err |-> ""]
        ELSE [store |-> done.store, res |-> "Ok", err |-> ""]

insert_certificate(S, certificate, provided) ==
    LET checked == check_certificate(S, certificate, provided)
        done == insert_certificate_atomic(S, certificate, checked.missing)
    IN  IF ~(cert_round(certificate) > S.gc_round)
             THEN [store |-> S, res |-> "Err", err |-> "at or below the GC round"]
        ELSE IF ~checked.ok THEN [store |-> S, res |-> "Err", err |-> checked.err]
        ELSE IF done.aborted THEN [store |-> done.store, res |-> "abort", err |-> ""]
        ELSE [store |-> done.store, res |-> "Ok", err |-> ""]

\* --------------------------------------------------------- remove_certificate
\* Mutants of rounds_remove: the whole round is dropped with the triple; the
\* round is kept when it is left empty.
rounds_remove_drops_round(rs, round, triple) == MapRemove(rs, round)

rounds_remove_keeps_empty_round(rs, round, triple) ==
    Put(rs, round, SetRemove(IF Has(rs, round) THEN Get(rs, round) ELSE <<>>, triple))

\* entry(round).or_default().remove(triple), and the round with it when it is
\* left empty.
rounds_remove(rs, round, triple) ==
    LET entries == IF Has(rs, round) THEN Get(rs, round) ELSE <<>>
        left == SetRemove(entries, triple)
    IN  IF left = <<>> THEN MapRemove(rs, round) ELSE Put(rs, round, left)

certificates_remove(certs, cid) == MapRemove(certs, cid)

\* Mutant of batch_ids_remove: the batch id is left behind.
batch_ids_remove_skipped(bids, bid) == bids

batch_ids_remove(bids, bid) == MapRemove(bids, bid)

\* Mutant of transmissions_remove: the entry goes with the first certificate
\* removed, whoever else references it.
RECURSIVE transmissions_remove_entry(_, _, _)
transmissions_remove_entry(ts, cid, tids) ==
    IF tids = <<>> THEN ts
    ELSE transmissions_remove_entry(MapRemove(ts, Head(tids)), cid, Tail(tids))

\* The loop over the transmission ids, under the write lock of `transmissions`.
RECURSIVE transmissions_remove(_, _, _)
transmissions_remove(ts, cid, tids) ==
    IF tids = <<>> THEN ts
    ELSE LET tid == Head(tids)
             left == SetRemove(Get(ts, tid)[2], cid)
         IN  IF ~Has(ts, tid) THEN transmissions_remove(ts, cid, Tail(tids))
             ELSE IF left = <<>>
             THEN transmissions_remove(MapRemove(ts, tid), cid, Tail(tids))
             ELSE transmissions_remove(Put(ts, tid, <<Get(ts, tid)[1], left>>),
                                       cid, Tail(tids))

remove_certificate(S, cid) ==
    LET found == get_certificate(S.certificates, cid)
        certificate == found[1]
    IN  IF found = <<>> THEN [store |-> S, res |-> "false"]
        ELSE [store |-> [S EXCEPT
                 !.rounds = rounds_remove(S.rounds, cert_round(certificate), Triple(certificate)),
                 !.certificates = certificates_remove(S.certificates, cid),
                 !.batch_ids = batch_ids_remove(S.batch_ids, cert_batch_id(certificate)),
                 !.transmissions = transmissions_remove(S.transmissions, cid,
                                       cert_transmission_ids(certificate))],
              res |-> "true"]

\* ------------------------------------------ increment_committee_to_next_round
\* Mutant of remove_committee: the committee is left where it is.
remove_committee_skipped(cs, round) == cs

remove_committee(cs, round) == MapRemove(cs, round)

\* Mutant of remove_certificates: only the first certificate of the list is removed.
remove_certificates_first_only(S, certs) ==
    IF certs = <<>> THEN S
    ELSE remove_certificate(S, certificate_id(Head(certs))).store

\* remove_certificate for each certificate of the list, in order.
RECURSIVE remove_certificates(_, _)
remove_certificates(S, certs) ==
    IF certs = <<>> THEN S
    ELSE remove_certificates(remove_certificate(S, certificate_id(Head(certs))).store,
                             Tail(certs))

\* Mutant of collect_round: the committee of the round goes, its certificates stay.
collect_round_keeps_certificates(S, round) ==
    [S EXCEPT !.committees = remove_committee(S.committees, round)]

\* The body of the loop `for gc_round in current_gc_round..next_gc_round`.
collect_round(S, round) ==
    LET removed == remove_certificates(S,
                       get_certificates_for_round(S.rounds, S.certificates, round))
    IN  [removed EXCEPT !.committees = remove_committee(removed.committees, round)]

\* Mutant of collect_rounds: the loop visits the round `to` as well.
RECURSIVE collect_rounds_inclusive(_, _, _)
collect_rounds_inclusive(S, from, to) ==
    IF from > to THEN S
    ELSE collect_rounds_inclusive(collect_round(S, from), from + 1, to)


\* The rounds the loop visits: from (inclusive) up to to (exclusive).
RECURSIVE collect_rounds(_, _, _)
collect_rounds(S, from, to) ==
    IF from >= to THEN S ELSE collect_rounds(collect_round(S, from), from + 1, to)

\* Mutant of garbage_collect: max_gc_rounds is added to the next round, not
\* subtracted from it.
garbage_collect_adds_max_gc_rounds(S, next_round) ==
    LET next_gc_round == next_round + S.max_gc_rounds
    IN  IF next_gc_round > S.gc_round
        THEN [collect_rounds(S, S.gc_round, next_gc_round) EXCEPT !.gc_round = next_gc_round]
        ELSE S

\* Mutant of garbage_collect: the GC round runs one round ahead.
garbage_collect_one_round_early(S, next_round) ==
    LET next_gc_round == saturating_sub(next_round + 1, S.max_gc_rounds)
    IN  IF next_gc_round > S.gc_round
        THEN [collect_rounds(S, S.gc_round, next_gc_round) EXCEPT !.gc_round = next_gc_round]
        ELSE S

\* Mutant of garbage_collect: the rounds are collected and the GC round is not stored.
garbage_collect_keeps_gc_round(S, next_round) ==
    LET next_gc_round == saturating_sub(next_round, S.max_gc_rounds)
    IN  IF next_gc_round > S.gc_round
        THEN collect_rounds(S, S.gc_round, next_gc_round) ELSE S

garbage_collect(S, next_round) ==
    LET current_gc_round == S.gc_round
        next_gc_round == saturating_sub(next_round, S.max_gc_rounds)
    IN  IF next_gc_round > current_gc_round
        THEN [collect_rounds(S, current_gc_round, next_gc_round)
                 EXCEPT !.gc_round = next_gc_round]
        ELSE S

increment_committee_to_next_round(S) ==
    LET current == get_committee(S.committees, S.current_round)
        next_committee == to_next_round(current[1])
        next_round == next_committee.round
        stored == [S EXCEPT !.current_round = next_round,
                            !.committees = Put(S.committees, next_round, next_committee)]
        collected == garbage_collect(stored, next_round)
    IN  IF current = <<>> THEN [store |-> S, res |-> "abort"]
        ELSE IF contains_certificates_for_round(S.rounds, next_round)
             THEN [store |-> S, res |-> "Err"]
        ELSE IF next_round # collected.current_round
             THEN [store |-> collected, res |-> "Err"]
        ELSE [store |-> collected, res |-> "Ok"]

\* ------------------------------------------------------------------ inputs
Threads == {"T1", "T2"}

\* A thread: the call it makes (op, certificate and transmissions, or
\* certificate id), the place it is at (pc), the result once it is done, the
\* locals of the functions it is in, and the certificate ids its garbage
\* collection has called remove_certificate for (collected).
Idle ==
    [pc |-> "idle", op |-> "", certificate |-> <<>>, provided |-> << >>, cid |-> <<>>,
     res |-> "", gc |-> 0, tids |-> <<>>, missing |-> << >>, prev |-> <<>>,
     authors |-> {}, previous_committee |-> <<>>, removing |-> <<>>, round |-> 0,
     next_committee |-> <<>>, next_gc |-> 0, g |-> 0, entries |-> <<>>,
     pending |-> <<>>, collected |-> {}]

Signatures(signers, timestamp) == {[signer |-> a, timestamp |-> timestamp] : a \in signers}

\* A certificate whose signers are all the other members.
Certified(author, round, timestamp, tids, prev) ==
    BatchCertificate(BatchHeader(author, round, timestamp, tids, prev),
                     Signatures(Members \ {author}, "live"))

\* Certificate ids that storage never holds (a certificate of round 0 is never
\* admitted): references to certificates that were never received or are gone.
Ghost(author) == BatchCertificate(BatchHeader(author, 0, "live", <<>>, <<>>), {})

Ghosts == <<Ghost("A"), Ghost("B"), Ghost("C"), Ghost("D"), Ghost("E")>>

\* The members that propose batches ("D" only signs), each with the
\* transmissions of its batches.
Authors == <<"A", "B", "C">>

TidsOf(author) ==
    CASE author = "A" -> <<"t1", "t2">>
      [] author = "B" -> <<"t2">>
      [] author = "C" -> <<>>
      [] OTHER -> <<"t1">>

\* The certificate ids held for a round, in the order of their authors.
RECURSIVE round_certificate_ids(_, _, _)
round_certificate_ids(rs, round, authors) ==
    IF authors = <<>> \/ ~Has(rs, round) THEN <<>>
    ELSE LET by == {e \in Range(Get(rs, round)) : e[3] = Head(authors)}
             rest == round_certificate_ids(rs, round, Tail(authors))
         IN  IF by = {} THEN rest ELSE <<(CHOOSE e \in by : TRUE)[1]>> \o rest

AllButLast(s) == SubSeq(s, 1, Len(s) - 1)

\* The previous certificate ids an author declares: the certificates held for
\* the previous round while that round is above the GC round, none below it.
PreviousChoices(S, round) ==
    IF round - 1 > S.gc_round
    THEN {round_certificate_ids(S.rounds, round - 1, Authors)} ELSE {<<>>}

\* Previous certificate ids that name what storage does not expect.
BadPreviousChoices(S) ==
    LET held == round_certificate_ids(S.rounds, S.current_round - 1, Authors)
    IN  {<<Ghost("E")>>, Ghosts, AllButLast(held)}
            \cup (IF S.certificates = <<>> THEN {} ELSE {<<S.certificates[1][1]>>})

\* The transmissions a caller hands over with a header: all it knows, or none.
ProvidedChoices(header) ==
    {[t \in Tids |-> "p"], << >>}

GoodCertificates(S) ==
    UNION {{Certified(Authors[i], r, "live", TidsOf(Authors[i]), prev) :
                i \in DOMAIN Authors, prev \in PreviousChoices(S, r)} :
           r \in S.gc_round .. (S.current_round + 1)}

\* Certificates with one thing wrong, for the round storage is at.
BadCertificates(S) ==
    LET r == S.current_round
        h == BatchHeader("A", r, "live", TidsOf("A"), <<>>)
    IN  {Certified(NonMember, r, "live", TidsOf(NonMember), <<>>),
         Certified("A", r, "stale", TidsOf("A"), <<>>),
         BatchCertificate(h, Signatures({"B"}, "live")),
         BatchCertificate(h, Signatures({"B", "C", NonMember}, "live")),
         BatchCertificate(h, Signatures({"B", "C", "D"}, "future"))}
        \cup {Certified("C", r, "live", TidsOf("C"), prev) : prev \in BadPreviousChoices(S)}

CandidateCertificates(S) == GoodCertificates(S) \cup BadCertificates(S)

InsertInputs(S) ==
    UNION {{<<c, provided>> : provided \in ProvidedChoices(c.batch_header)} :
           c \in CandidateCertificates(S)}

\* The maps insert_certificate_atomic may be handed for a certificate.
MissingChoices(certificate) ==
    UNION {{[t \in D |-> p] : p \in Payloads} :
           D \in SUBSET Range(cert_transmission_ids(certificate))}

\* --------------------------------------------------------- the sequential store
SetStore(S) ==
    /\ current_round' = S.current_round
    /\ committees' = S.committees
    /\ gc_round' = S.gc_round
    /\ max_gc_rounds' = S.max_gc_rounds
    /\ rounds' = S.rounds
    /\ certificates' = S.certificates
    /\ batch_ids' = S.batch_ids
    /\ transmissions' = S.transmissions

Init ==
    \E r0 \in InitialRounds, max_gc \in 0 .. MaxGcRounds :
        LET S == new(Committee(r0), max_gc)
        IN  /\ current_round = S.current_round
            /\ committees = S.committees
            /\ gc_round = S.gc_round
            /\ max_gc_rounds = S.max_gc_rounds
            /\ rounds = S.rounds
            /\ certificates = S.certificates
            /\ batch_ids = S.batch_ids
            /\ transmissions = S.transmissions
            /\ initial = S
            /\ aborted = FALSE
            /\ removals = 0
            /\ threads = [t \in Threads |-> Idle]
            /\ rounds_readers = {}

Running == ~aborted

InsertCertificate ==
    /\ Running
    /\ Len(certificates) < MaxCerts
    /\ \E in \in InsertInputs(Store) :
          LET done == insert_certificate(Store, in[1], in[2])
          IN  /\ SetStore(done.store)
              /\ aborted' = (done.res = "abort")
    /\ UNCHANGED <<initial, removals, threads, rounds_readers>>

\* The privileged insert, called again for a certificate that is held.
InsertCertificateAtomicAgain ==
    /\ Running
    /\ \E i \in DOMAIN certificates :
          \E missing \in MissingChoices(certificates[i][2]) :
              LET done == insert_certificate_atomic(Store, certificates[i][2], missing)
              IN  /\ SetStore(done.store)
                  /\ aborted' = done.aborted
    /\ UNCHANGED <<initial, removals, threads, rounds_readers>>

RemoveCertificate ==
    /\ Running
    /\ removals < MaxRemovals
    /\ removals' = removals + 1
    /\ \E cid \in Keys(certificates) \cup {Ghost("E")} :
          LET done == remove_certificate(Store, cid)
          IN  /\ SetStore(done.store)
              /\ aborted' = FALSE
    /\ UNCHANGED <<initial, threads, rounds_readers>>

IncrementCommitteeToNextRound ==
    /\ Running
    /\ current_round < MaxRound
    /\ LET done == increment_committee_to_next_round(Store)
       IN  /\ SetStore(done.store)
           /\ aborted' = (done.res = "abort")
    /\ UNCHANGED <<initial, removals, threads, rounds_readers>>

Next ==
    \/ InsertCertificate
    \/ InsertCertificateAtomicAgain
    \/ RemoveCertificate
    \/ IncrementCommitteeToNextRound

Spec == Init /\ [][Next]_vars

\* ------------------------------------- the store driven as the tests drive it
\* The tests of the module call insert_certificate_atomic themselves, with a
\* sampled certificate (here of the current round or the next) and all its
\* transmissions as the missing ones, on a storage that has checked nothing.
SampledCertificates(S) ==
    {Certified(Authors[i], r, "live", TidsOf(Authors[i]), <<>>) :
         i \in DOMAIN Authors,
         r \in (S.current_round .. (S.current_round + 1)) \ {0}}

\* sample_transmissions: a transmission for every transmission id.
sample_transmissions(certificate) ==
    [t \in Range(cert_transmission_ids(certificate)) |-> "p"]

InsertCertificateAtomic ==
    /\ Running
    /\ Len(certificates) < MaxCerts
    /\ \E c \in SampledCertificates(Store) :
          LET done == insert_certificate_atomic(Store, c, sample_transmissions(c))
          IN  /\ SetStore(done.store)
              /\ aborted' = done.aborted
    /\ UNCHANGED <<initial, removals, threads, rounds_readers>>

NextAtomic ==
    \/ InsertCertificateAtomic
    \/ RemoveCertificate
    \/ IncrementCommitteeToNextRound

SpecAtomic == Init /\ [][NextAtomic]_vars

\* ------------------------------------------------- concurrent executions
\* Each thread makes calls on the shared storage; a step of a thread is one
\* acquisition of a lock (or one atomic load or store) with the work done
\* under it, so that the calls interleave wherever the code releases a lock.
history == <<initial, aborted, removals>>

At(t, pc) == threads[t].pc = pc

Goto(t, th) == threads' = [threads EXCEPT ![t] = th]

\* The call returns: its locals are dropped, its arguments and result are kept.
Return(th, res) ==
    [Idle EXCEPT !.pc = "done", !.op = th.op, !.certificate = th.certificate,
                 !.provided = th.provided, !.cid = th.cid, !.res = res,
                 !.collected = th.collected]

\* The write lock of `rounds` is free of readers.
rounds_writable == rounds_readers = {}

\* Stores a sequence of calls leads to from a new storage.
RECURSIVE seeded(_, _)
seeded(S, certs) ==
    IF certs = <<>> THEN S
    ELSE seeded(insert_certificate(S, Head(certs), [t \in Tids |-> "p"]).store, Tail(certs))

Round1(author) == Certified(author, 1, "live", TidsOf(author), <<>>)

StartingStores ==
    {new(Committee(1), 1),
     seeded(new(Committee(1), 0), <<Round1("B")>>),
     seeded(new(Committee(1), 1), <<Round1("B")>>),
     increment_committee_to_next_round(
         seeded(new(Committee(1), MaxGcRounds),
                  <<Round1("A"), Round1("B"), Round1("C")>>)).store}

\* The certificates the threads try to insert: of the round storage is at, by
\* "A" (one that declares the certificates held for the previous round, one
\* that declares none of them but an unknown one) and by "B".
RacingCertificates(S) ==
    LET r == S.current_round
    IN  {Certified(a, r, "live", TidsOf(a), prev) :
             a \in {"A", "B"}, prev \in PreviousChoices(S, r)}
        \cup {Certified("A", r, "live", TidsOf("A"), <<Ghost("E")>>)}

InitConcurrent ==
    \E S \in StartingStores :
        /\ current_round = S.current_round
        /\ committees = S.committees
        /\ gc_round = S.gc_round
        /\ max_gc_rounds = S.max_gc_rounds
        /\ rounds = S.rounds
        /\ certificates = S.certificates
        /\ batch_ids = S.batch_ids
        /\ transmissions = S.transmissions
        /\ initial = S
        /\ aborted = FALSE
        /\ removals = 0
        /\ threads = [t \in Threads |-> Idle]
        /\ rounds_readers = {}

\* ---- a thread calls an operation
CallInsertCertificate(t) ==
    /\ At(t, "idle")
    /\ \E c \in RacingCertificates(Store) :
          Goto(t, [Idle EXCEPT !.pc = "insert_certificate", !.op = "insert_certificate",
                               !.certificate = <<c>>, !.provided = [x \in Tids |-> "p"]])
    /\ UNCHANGED <<storage, history, rounds_readers>>

CallRemoveCertificate(t) ==
    /\ At(t, "idle")
    /\ \E cid \in Keys(certificates) \cup {Ghost("E")} :
          Goto(t, [Idle EXCEPT !.pc = "remove_certificate", !.op = "remove_certificate",
                               !.cid = <<cid>>])
    /\ UNCHANGED <<storage, history, rounds_readers>>

CallIncrementCommitteeToNextRound(t) ==
    /\ At(t, "idle")
    /\ current_round < MaxRound
    /\ Goto(t, [Idle EXCEPT !.pc = "increment_committee_to_next_round",
                            !.op = "increment_committee_to_next_round"])
    /\ UNCHANGED <<storage, history, rounds_readers>>

\* ---- insert_certificate, check_certificate, check_batch_header
\* ensure!(certificate.round() > self.gc_round())
InsertLoadGcRound(t) ==
    /\ At(t, "insert_certificate")
    /\ LET th == threads[t]
       IN  IF cert_round(th.certificate[1]) > gc_round
           THEN Goto(t, [th EXCEPT !.pc = "check_certificate"])
           ELSE Goto(t, Return(th, "Err"))
    /\ UNCHANGED <<storage, history, rounds_readers>>

\* self.contains_certificate(certificate.certificate_id())
CheckContainsCertificate(t) ==
    /\ At(t, "check_certificate")
    /\ LET th == threads[t]
       IN  IF contains_certificate(certificates, certificate_id(th.certificate[1]))
           THEN Goto(t, Return(th, "Err"))
           ELSE Goto(t, [th EXCEPT !.pc = "check_author"])
    /\ UNCHANGED <<storage, history, rounds_readers>>

\* self.contains_certificate_in_round_from(round, certificate.author())
CheckContainsAuthor(t) ==
    /\ At(t, "check_author")
    /\ LET th == threads[t]
           c == th.certificate[1]
       IN  IF contains_certificate_in_round_from(rounds, cert_round(c), cert_author(c))
           THEN Goto(t, Return(th, "Err"))
           ELSE Goto(t, [th EXCEPT !.pc = "check_batch_header"])
    /\ UNCHANGED <<storage, history, rounds_readers>>

\* let gc_round = self.gc_round(), in check_batch_header
HeaderLoadGcRound(t) ==
    /\ At(t, "check_batch_header")
    /\ Goto(t, [threads[t] EXCEPT !.pc = "check_batch", !.gc = gc_round])
    /\ UNCHANGED <<storage, history, rounds_readers>>

\* self.contains_batch(batch_header.batch_id())
HeaderContainsBatch(t) ==
    /\ At(t, "check_batch")
    /\ LET th == threads[t]
       IN  IF contains_batch(batch_ids, cert_batch_id(th.certificate[1]))
           THEN Goto(t, Return(th, "Err"))
           ELSE Goto(t, [th EXCEPT !.pc = "check_committee"])
    /\ UNCHANGED <<storage, history, rounds_readers>>

\* Where check_batch_header goes once the transmission ids are looked up.
after_transmissions(th) ==
    IF saturating_sub(cert_round(th.certificate[1]), 1) > th.gc
    THEN "check_previous_committee" ELSE "check_signers"

\* self.get_committee(round), the author's membership and the timestamp
HeaderGetCommittee(t) ==
    /\ At(t, "check_committee")
    /\ LET th == threads[t]
           header == th.certificate[1].batch_header
           committee == get_committee(committees, header.round)
       IN  IF \/ committee = <<>>
              \/ ~is_committee_member(committee[1], header.author)
              \/ ~check_timestamp_for_liveness(header.timestamp)
           THEN Goto(t, Return(th, "Err"))
           ELSE IF header.transmission_ids = <<>>
           THEN Goto(t, [th EXCEPT !.pc = after_transmissions(th)])
           ELSE Goto(t, [th EXCEPT !.pc = "check_transmission",
                                   !.tids = header.transmission_ids])
    /\ UNCHANGED <<storage, history, rounds_readers>>

\* One pass of the loop over the transmission ids:
\* self.transmissions.read().contains_key(transmission_id)
HeaderContainsTransmission(t) ==
    /\ At(t, "check_transmission")
    /\ LET th == threads[t]
           tid == Head(th.tids)
           held == contains_transmission(transmissions, tid)
           missing == IF held THEN th.missing
                      ELSE [x \in DOMAIN th.missing \cup {tid} |-> th.provided[x]]
       IN  IF ~held /\ tid \notin DOMAIN th.provided
           THEN Goto(t, Return(th, "Err"))
           ELSE Goto(t, [th EXCEPT !.tids = Tail(th.tids), !.missing = missing,
                                   !.pc = IF Tail(th.tids) = <<>>
                                          THEN after_transmissions(th)
                                          ELSE "check_transmission"])
    /\ UNCHANGED <<storage, history, rounds_readers>>

\* self.get_committee(previous_round)
HeaderGetPreviousCommittee(t) ==
    /\ At(t, "check_previous_committee")
    /\ LET th == threads[t]
           previous_round == saturating_sub(cert_round(th.certificate[1]), 1)
           previous_committee == get_committee(committees, previous_round)
       IN  IF previous_committee = <<>>
           THEN Goto(t, Return(th, "Err"))
           ELSE Goto(t, [th EXCEPT !.pc = "check_previous_round",
                                   !.previous_committee = previous_committee])
    /\ UNCHANGED <<storage, history, rounds_readers>>

\* Where the loop over the previous certificate ids ends: the quorum of the
\* previous authors.
after_previous(th, authors) ==
    IF is_quorum_threshold_reached(th.previous_committee[1], authors)
    THEN [th EXCEPT !.pc = "check_signers", !.prev = <<>>, !.authors = {},
                    !.previous_committee = <<>>]
    ELSE Return(th, "Err")

\* self.contains_certificates_for_round(previous_round), and the number of
\* previous certificate ids
HeaderContainsPreviousRound(t) ==
    /\ At(t, "check_previous_round")
    /\ LET th == threads[t]
           header == th.certificate[1].batch_header
           previous_round == saturating_sub(header.round, 1)
       IN  IF \/ ~contains_certificates_for_round(rounds, previous_round)
              \/ Len(header.previous_certificate_ids) > num_members(th.previous_committee[1])
           THEN Goto(t, Return(th, "Err"))
           ELSE IF header.previous_certificate_ids = <<>>
           THEN Goto(t, after_previous(th, {}))
           ELSE Goto(t, [th EXCEPT !.pc = "check_previous_certificate",
                                   !.prev = header.previous_certificate_ids])
    /\ UNCHANGED <<storage, history, rounds_readers>>

\* One pass of the loop over the previous certificate ids:
\* self.get_certificate(*previous_certificate_id)
HeaderGetPreviousCertificate(t) ==
    /\ At(t, "check_previous_certificate")
    /\ LET th == threads[t]
           previous_round == saturating_sub(cert_round(th.certificate[1]), 1)
           one == check_previous_certificate(certificates, Head(th.prev), previous_round,
                                             th.authors)
       IN  IF one.err # "" THEN Goto(t, Return(th, "Err"))
           ELSE IF Tail(th.prev) = <<>> THEN Goto(t, after_previous(th, one.authors))
           ELSE Goto(t, [th EXCEPT !.prev = Tail(th.prev), !.authors = one.authors])
    /\ UNCHANGED <<storage, history, rounds_readers>>

\* The signers' timestamps, self.get_committee(round), the signers' membership
\* and their quorum
CheckSigners(t) ==
    /\ At(t, "check_signers")
    /\ LET th == threads[t]
       IN  IF check_signers(committees, th.certificate[1]) # ""
           THEN Goto(t, Return(th, "Err"))
           ELSE Goto(t, [th EXCEPT !.pc = "insert_rounds", !.gc = 0])
    /\ UNCHANGED <<storage, history, rounds_readers>>

\* ---- insert_certificate_atomic
\* Mutant of InsertRounds: the triple is not written.
InsertRoundsWithoutTriple(t) ==
    /\ At(t, "insert_rounds")
    /\ rounds_writable
    /\ Goto(t, [threads[t] EXCEPT !.pc = "insert_certificates"])
    /\ UNCHANGED <<storage, history, rounds_readers>>

InsertRounds(t) ==
    /\ At(t, "insert_rounds")
    /\ rounds_writable
    /\ rounds' = rounds_insert(rounds, threads[t].certificate[1])
    /\ Goto(t, [threads[t] EXCEPT !.pc = "insert_certificates"])
    /\ UNCHANGED <<current_round, committees, gc_round, max_gc_rounds, certificates,
                   batch_ids, transmissions, history, rounds_readers>>

InsertCertificates(t) ==
    /\ At(t, "insert_certificates")
    /\ certificates' = certificates_insert(certificates, threads[t].certificate[1])
    /\ Goto(t, [threads[t] EXCEPT !.pc = "insert_batch_ids"])
    /\ UNCHANGED <<current_round, committees, gc_round, max_gc_rounds, rounds,
                   batch_ids, transmissions, history, rounds_readers>>

InsertBatchIds(t) ==
    /\ At(t, "insert_batch_ids")
    /\ batch_ids' = batch_ids_insert(batch_ids, threads[t].certificate[1])
    /\ Goto(t, [threads[t] EXCEPT !.pc = "insert_transmissions"])
    /\ UNCHANGED <<current_round, committees, gc_round, max_gc_rounds, rounds,
                   certificates, transmissions, history, rounds_readers>>

\* The loop under the write lock of `transmissions`; a failed expect unwinds
\* the thread and the lock is released with what was written so far.
InsertTransmissions(t) ==
    /\ At(t, "insert_transmissions")
    /\ LET th == threads[t]
           c == th.certificate[1]
           done == transmissions_insert(transmissions, certificate_id(c),
                                        cert_transmission_ids(c), th.missing)
       IN  /\ transmissions' = done.transmissions
           /\ Goto(t, Return(th, IF done.aborted THEN "abort" ELSE "Ok"))
    /\ UNCHANGED <<current_round, committees, gc_round, max_gc_rounds, rounds,
                   certificates, batch_ids, history, rounds_readers>>

\* ---- remove_certificate, called by a thread or by garbage collection
\* Where a call of remove_certificate goes when it returns.
Removed(th, res) ==
    IF th.op = "remove_certificate" THEN Return(th, res)
    ELSE [th EXCEPT !.removing = <<>>, !.pending = Tail(th.pending),
                    !.pc = IF Tail(th.pending) = <<>> THEN "gc_remove_committee"
                           ELSE "remove_certificate"]

\* The certificate id the call is for.
removed_id(th) ==
    IF th.op = "remove_certificate" THEN th.cid[1] ELSE certificate_id(Head(th.pending))

\* self.get_certificate(certificate_id)
RemoveGetCertificate(t) ==
    /\ At(t, "remove_certificate")
    /\ LET th == threads[t]
           found == get_certificate(certificates, removed_id(th))
       IN  IF found = <<>> THEN Goto(t, Removed(th, "false"))
           ELSE Goto(t, [th EXCEPT !.pc = "remove_rounds", !.removing = found])
    /\ UNCHANGED <<storage, history, rounds_readers>>

RemoveRounds(t) ==
    /\ At(t, "remove_rounds")
    /\ rounds_writable
    /\ LET c == threads[t].removing[1]
       IN  rounds' = rounds_remove(rounds, cert_round(c), Triple(c))
    /\ Goto(t, [threads[t] EXCEPT !.pc = "remove_certificates"])
    /\ UNCHANGED <<current_round, committees, gc_round, max_gc_rounds, certificates,
                   batch_ids, transmissions, history, rounds_readers>>

RemoveCertificates(t) ==
    /\ At(t, "remove_certificates")
    /\ certificates' = certificates_remove(certificates, removed_id(threads[t]))
    /\ Goto(t, [threads[t] EXCEPT !.pc = "remove_batch_ids"])
    /\ UNCHANGED <<current_round, committees, gc_round, max_gc_rounds, rounds,
                   batch_ids, transmissions, history, rounds_readers>>

RemoveBatchIds(t) ==
    /\ At(t, "remove_batch_ids")
    /\ batch_ids' = batch_ids_remove(batch_ids, cert_batch_id(threads[t].removing[1]))
    /\ Goto(t, [threads[t] EXCEPT !.pc = "remove_transmissions"])
    /\ UNCHANGED <<current_round, committees, gc_round, max_gc_rounds, rounds,
                   certificates, transmissions, history, rounds_readers>>

RemoveTransmissions(t) ==
    /\ At(t, "remove_transmissions")
    /\ LET th == threads[t]
       IN  /\ transmissions' = transmissions_remove(transmissions, removed_id(th),
                                   cert_transmission_ids(th.removing[1]))
           /\ Goto(t, Removed(th, "true"))
    /\ UNCHANGED <<current_round, committees, gc_round, max_gc_rounds, rounds,
                   certificates, batch_ids, history, rounds_readers>>

\* ---- increment_committee_to_next_round
\* current_committee: let round = self.current_round()
IncrementLoadCurrentRound(t) ==
    /\ At(t, "increment_committee_to_next_round")
    /\ Goto(t, [threads[t] EXCEPT !.pc = "current_committee", !.round = current_round])
    /\ UNCHANGED <<storage, history, rounds_readers>>

\* current_committee: self.get_committee(round).expect(..), and to_next_round
IncrementGetCommittee(t) ==
    /\ At(t, "current_committee")
    /\ LET th == threads[t]
           current == get_committee(committees, th.round)
       IN  IF current = <<>> THEN Goto(t, Return(th, "abort"))
           ELSE Goto(t, [th EXCEPT !.pc = "ensure_no_certificates", !.round = 0,
                                   !.next_committee = <<to_next_round(current[1])>>])
    /\ UNCHANGED <<storage, history, rounds_readers>>

\* ensure!(!self.contains_certificates_for_round(next_round))
IncrementContainsCertificates(t) ==
    /\ At(t, "ensure_no_certificates")
    /\ LET th == threads[t]
       IN  IF contains_certificates_for_round(rounds, th.next_committee[1].round)
           THEN Goto(t, Return(th, "Err"))
           ELSE Goto(t, [th EXCEPT !.pc = "store_current_round"])
    /\ UNCHANGED <<storage, history, rounds_readers>>

\* self.current_round.store(next_round)
IncrementStoreCurrentRound(t) ==
    /\ At(t, "store_current_round")
    /\ current_round' = threads[t].next_committee[1].round
    /\ Goto(t, [threads[t] EXCEPT !.pc = "insert_committee"])
    /\ UNCHANGED <<committees, gc_round, max_gc_rounds, rounds, certificates, batch_ids,
                   transmissions, history, rounds_readers>>

\* self.committees.write().insert(next_round, next_committee)
IncrementInsertCommittee(t) ==
    /\ At(t, "insert_committee")
    /\ LET next_committee == threads[t].next_committee[1]
       IN  committees' = Put(committees, next_committee.round, next_committee)
    /\ Goto(t, [threads[t] EXCEPT !.pc = "load_gc_round"])
    /\ UNCHANGED <<current_round, gc_round, max_gc_rounds, rounds, certificates, batch_ids,
                   transmissions, history, rounds_readers>>

\* let current_gc_round = self.gc_round(), and the next GC round
IncrementLoadGcRound(t) ==
    /\ At(t, "load_gc_round")
    /\ LET th == threads[t]
           next_gc_round == saturating_sub(th.next_committee[1].round, max_gc_rounds)
       IN  IF next_gc_round > gc_round
           THEN Goto(t, [th EXCEPT !.pc = "gc_certificates_for_round", !.g = gc_round,
                                   !.next_gc = next_gc_round])
           ELSE Goto(t, [th EXCEPT !.pc = "ensure_current_round"])
    /\ UNCHANGED <<storage, history, rounds_readers>>

\* get_certificates_for_round(gc_round): the genesis round has none; else the
\* read lock of `rounds` is taken, and kept when the round has entries.
GcReadRounds(t) ==
    /\ At(t, "gc_certificates_for_round")
    /\ LET th == threads[t]
       IN  IF th.g # 0 /\ Has(rounds, th.g)
           THEN /\ Goto(t, [th EXCEPT !.pc = "gc_read_certificates",
                                      !.entries = Get(rounds, th.g)])
                /\ rounds_readers' = rounds_readers \cup {t}
           ELSE /\ Goto(t, [th EXCEPT !.pc = "gc_remove_committee"])
                /\ UNCHANGED rounds_readers
    /\ UNCHANGED <<storage, history>>

\* Mutant of GcReadCertificates: the read lock of `rounds` is kept over the
\* loop that removes the certificates.
GcReadCertificatesKeepsLock(t) ==
    /\ At(t, "gc_read_certificates")
    /\ LET th == threads[t]
           found == collect_certificates(th.entries, certificates)
       IN  Goto(t, [th EXCEPT !.entries = <<>>, !.pending = found,
                              !.collected = th.collected \cup
                                  {certificate_id(c) : c \in Range(found)},
                              !.pc = IF found = <<>> THEN "gc_remove_committee"
                                     ELSE "remove_certificate"])
    /\ UNCHANGED <<storage, history, rounds_readers>>

\* get_certificates_for_round(gc_round): the certificates of the entries,
\* under the read locks of `rounds` and `certificates`, which are released
GcReadCertificates(t) ==
    /\ At(t, "gc_read_certificates")
    /\ LET th == threads[t]
           found == collect_certificates(th.entries, certificates)
       IN  Goto(t, [th EXCEPT !.entries = <<>>, !.pending = found,
                              !.collected = th.collected \cup
                                  {certificate_id(c) : c \in Range(found)},
                              !.pc = IF found = <<>> THEN "gc_remove_committee"
                                     ELSE "remove_certificate"])
    /\ rounds_readers' = rounds_readers \ {t}
    /\ UNCHANGED <<storage, history>>

\* self.remove_committee(gc_round), and the next round of the loop
GcRemoveCommittee(t) ==
    /\ At(t, "gc_remove_committee")
    /\ LET th == threads[t]
       IN  /\ committees' = remove_committee(committees, th.g)
           /\ Goto(t, [th EXCEPT !.g = th.g + 1,
                                 !.pc = IF th.g + 1 < th.next_gc
                                        THEN "gc_certificates_for_round"
                                        ELSE "store_gc_round"])
    /\ UNCHANGED <<current_round, gc_round, max_gc_rounds, rounds, certificates, batch_ids,
                   transmissions, history, rounds_readers>>

\* self.gc_round.store(next_gc_round)
GcStoreGcRound(t) ==
    /\ At(t, "store_gc_round")
    /\ gc_round' = threads[t].next_gc
    /\ Goto(t, [threads[t] EXCEPT !.pc = "ensure_current_round", !.g = 0, !.next_gc = 0])
    /\ UNCHANGED <<current_round, committees, max_gc_rounds, rounds, certificates,
                   batch_ids, transmissions, history, rounds_readers>>

\* ensure!(next_round == self.current_round())
IncrementEnsureCurrentRound(t) ==
    /\ At(t, "ensure_current_round")
    /\ LET th == threads[t]
       IN  Goto(t, Return(th, IF th.next_committee[1].round = current_round
                              THEN "Ok" ELSE "Err"))
    /\ UNCHANGED <<storage, history, rounds_readers>>

NextConcurrent ==
    \E t \in Threads :
        \/ CallInsertCertificate(t)
        \/ CallRemoveCertificate(t)
        \/ CallIncrementCommitteeToNextRound(t)
        \/ InsertLoadGcRound(t)
        \/ CheckContainsCertificate(t)
        \/ CheckContainsAuthor(t)
        \/ HeaderLoadGcRound(t)
        \/ HeaderContainsBatch(t)
        \/ HeaderGetCommittee(t)
        \/ HeaderContainsTransmission(t)
        \/ HeaderGetPreviousCommittee(t)
        \/ HeaderContainsPreviousRound(t)
        \/ HeaderGetPreviousCertificate(t)
        \/ CheckSigners(t)
        \/ InsertRounds(t)
        \/ InsertCertificates(t)
        \/ InsertBatchIds(t)
        \/ InsertTransmissions(t)
        \/ RemoveGetCertificate(t)
        \/ RemoveRounds(t)
        \/ RemoveCertificates(t)
        \/ RemoveBatchIds(t)
        \/ RemoveTransmissions(t)
        \/ IncrementLoadCurrentRound(t)
        \/ IncrementGetCommittee(t)
        \/ IncrementContainsCertificates(t)
        \/ IncrementStoreCurrentRound(t)
        \/ IncrementInsertCommittee(t)
        \/ IncrementLoadGcRound(t)
        \/ GcReadRounds(t)
        \/ GcReadCertificates(t)
        \/ GcRemoveCommittee(t)
        \/ GcStoreGcRound(t)
        \/ IncrementEnsureCurrentRound(t)

SpecConcurrent == InitConcurrent /\ [][NextConcurrent]_vars

\* The steps of a thread inside a call it has made.
ThreadSteps(t) ==
    \/ InsertLoadGcRound(t) \/ CheckContainsCertificate(t) \/ CheckContainsAuthor(t)
    \/ HeaderLoadGcRound(t) \/ HeaderContainsBatch(t) \/ HeaderGetCommittee(t)
    \/ HeaderContainsTransmission(t) \/ HeaderGetPreviousCommittee(t)
    \/ HeaderContainsPreviousRound(t) \/ HeaderGetPreviousCertificate(t)
    \/ CheckSigners(t) \/ InsertRounds(t) \/ InsertCertificates(t) \/ InsertBatchIds(t)
    \/ InsertTransmissions(t) \/ RemoveGetCertificate(t) \/ RemoveRounds(t)
    \/ RemoveCertificates(t) \/ RemoveBatchIds(t) \/ RemoveTransmissions(t)
    \/ IncrementLoadCurrentRound(t) \/ IncrementGetCommittee(t)
    \/ IncrementContainsCertificates(t) \/ IncrementStoreCurrentRound(t)
    \/ IncrementInsertCommittee(t) \/ IncrementLoadGcRound(t) \/ GcReadRounds(t)
    \/ GcReadCertificates(t) \/ GcRemoveCommittee(t) \/ GcStoreGcRound(t)
    \/ IncrementEnsureCurrentRound(t)

\* Fair scheduling: a thread inside a call is not held back for ever while
\* its next step can be taken (the scheduler runs every runnable thread, and a
\* lock that is free is handed to a thread that waits for it).
SpecConcurrentFair ==
    SpecConcurrent /\ \A t \in Threads : WF_vars(ThreadSteps(t))

\* ------------------------------------------------------------ properties
\* The certificates held, and the rounds any data index names.
held_certificates == {certificates[i][2] : i \in DOMAIN certificates}

data_rounds ==
    Keys(rounds) \cup {cert_round(c) : c \in held_certificates}
        \cup {batch_ids[i][2] : i \in DOMAIN batch_ids}

\* The places of `rounds` that hold a triple of the certificate id.
triples_of(cid) ==
    UNION {{<<i, j>> : j \in {k \in DOMAIN rounds[i][2] : rounds[i][2][k][1] = cid}} :
           i \in DOMAIN rounds}

\* The certificate ids held whose certificate declares the transmission id.
referencing(tid) ==
    {certificate_id(c) : c \in {d \in held_certificates : tid \in Range(cert_transmission_ids(d))}}

\* C1: from new(committee of round 1, max_gc_rounds = 1) with one certificate
\* of round 1 held, a successful increment_committee_to_next_round leaves
\* current_round = 2 and gc_round = 1, the certificate in no index, no
\* committee for round 1 and a committee for round 2.
C1_AdvancePurgesRetiredRound ==
    (/\ initial.current_round = 1 /\ max_gc_rounds = 1 /\ current_round = 1 /\ gc_round = 0
     /\ Len(certificates) = 1 /\ cert_round(certificates[1][2]) = 1)
    => LET done == increment_committee_to_next_round(Store)
           S == done.store
           c1 == certificates[1][2]
       IN  done.res = "Ok" =>
             /\ S.current_round = 2
             /\ S.gc_round = 1
             /\ ~Has(S.rounds, 1)
             /\ \A i \in DOMAIN S.rounds :
                    \A e \in Range(S.rounds[i][2]) : e[1] # certificate_id(c1)
             /\ ~Has(S.certificates, certificate_id(c1))
             /\ ~Has(S.batch_ids, cert_batch_id(c1))
             /\ \A i \in DOMAIN S.transmissions :
                    certificate_id(c1) \notin Range(S.transmissions[i][2][2])
             /\ ~Has(S.committees, 1)
             /\ Has(S.committees, 2)

\* C2: every round that is a key of `rounds`, the round of every certificate
\* held and every round stored in `batch_ids` is above the GC round.
C2_DataAboveGcRound == \A r \in data_rounds : r > gc_round

\* C3: every triple of `rounds` names a certificate held, with the round, the
\* batch id and the author of the triple, and every certificate id held is in
\* exactly one triple of exactly one round.
C3_RoundsAgreeWithCertificates ==
    /\ \A i \in DOMAIN rounds : \A e \in Range(rounds[i][2]) :
          /\ Has(certificates, e[1])
          /\ cert_round(Get(certificates, e[1])) = rounds[i][1]
          /\ cert_batch_id(Get(certificates, e[1])) = e[2]
          /\ cert_author(Get(certificates, e[1])) = e[3]
    /\ \A k \in DOMAIN certificates :
          Cardinality(triples_of(certificates[k][1])) = 1

C3_Witness ==
    /\ Len(certificates) = MaxCerts
    /\ Len(rounds) >= 2
    /\ removals > 0

\* C4: the batch id of every certificate held is a key of `batch_ids` with the
\* certificate's round, and every key of `batch_ids` is the batch id of a
\* certificate held whose round is the one stored.
C4_BatchIdsAgreeWithCertificates ==
    /\ \A c \in held_certificates :
          /\ Has(batch_ids, cert_batch_id(c))
          /\ Get(batch_ids, cert_batch_id(c)) = cert_round(c)
    /\ \A i \in DOMAIN batch_ids :
          \E c \in held_certificates :
              cert_batch_id(c) = batch_ids[i][1] /\ cert_round(c) = batch_ids[i][2]

C4_Witness ==
    /\ Len(batch_ids) >= 2
    /\ removals > 0
    /\ current_round > initial.current_round

\* C5: `transmissions` has an entry for a transmission id exactly when some
\* certificate held declares it, and the entry's set is the set of the ids of
\* those certificates.
C5_TransmissionsAgreeWithCertificates ==
    \A tid \in Tids :
        /\ Has(transmissions, tid) <=> referencing(tid) # {}
        /\ Has(transmissions, tid) =>
              /\ Range(Get(transmissions, tid)[2]) = referencing(tid)
              /\ Len(Get(transmissions, tid)[2]) = Cardinality(referencing(tid))

\* A transmission two certificates share, after one that was held is gone.
C5_Witness ==
    /\ removals > 0
    /\ \E tid \in Tids : Cardinality(referencing(tid)) = 2
    /\ \E tid \in Tids : ~Has(transmissions, tid)

\* C6: no round of `rounds` holds two triples of one author.
C6_OneCertificatePerAuthorAndRound ==
    \A i \in DOMAIN rounds : \A j, k \in DOMAIN rounds[i][2] :
        rounds[i][2][j][3] = rounds[i][2][k][3] => j = k

\* A round with two authors, and a certificate of one of them for that round
\* among the candidates.
C6_Witness ==
    \E i \in DOMAIN rounds :
        /\ Len(rounds[i][2]) >= 2
        /\ \E c \in CandidateCertificates(Store) :
              /\ ~Has(certificates, certificate_id(c))
              /\ contains_certificate_in_round_from(rounds, rounds[i][1], cert_author(c))
              /\ cert_round(c) = rounds[i][1]

\* C9: in every state, for every certificate admitted with the transmissions
\* handed over, insert_certificate followed by remove_certificate of its id
\* returns true and leaves the storage as it was.
C9_InsertRemoveRoundTrip ==
    \A in \in InsertInputs(Store) :
        LET inserted == insert_certificate(Store, in[1], in[2])
            removed == remove_certificate(inserted.store, certificate_id(in[1]))
        IN  inserted.res = "Ok" => removed.res = "true" /\ removed.store = Store

\* After a removal, a certificate is admitted that shares a transmission with
\* a certificate held and brings one of its own.
C9_Witness ==
    /\ removals > 0
    /\ certificates # <<>>
    /\ \E in \in InsertInputs(Store) :
          /\ insert_certificate(Store, in[1], in[2]).res = "Ok"
          /\ \E tid \in Range(cert_transmission_ids(in[1])) : Has(transmissions, tid)
          /\ \E tid \in Range(cert_transmission_ids(in[1])) : ~Has(transmissions, tid)

\* C10: insert_certificate_atomic for a certificate that is held, with any
\* subset of its transmissions as the missing ones, does not abort and leaves
\* the storage as it is.
C10_AtomicInsertAgainChangesNothing ==
    \A i \in DOMAIN certificates :
        \A missing \in MissingChoices(certificates[i][2]) :
            insert_certificate_atomic(Store, certificates[i][2], missing)
                = [store |-> Store, aborted |-> FALSE]

\* A certificate of two transmissions is held, one of them shared.
C10_Witness ==
    /\ \E i \in DOMAIN certificates : Len(cert_transmission_ids(certificates[i][2])) = 2
    /\ \E tid \in Tids : Cardinality(referencing(tid)) = 2

\* The calls of both threads have returned (none was cut short by an expect).
Returned(t) == threads[t].pc = "done" /\ threads[t].res # "abort"

AllReturned == \A t \in Threads : Returned(t)

\* insert_certificate(certificate, provided), called alone on the storage as it
\* was before any call, is admitted.
AdmittedAlone(th) ==
    /\ th.op = "insert_certificate"
    /\ insert_certificate(initial, th.certificate[1], th.provided).res = "Ok"

\* C7: when two threads have called insert_certificate with the same
\* certificate, or with two certificates of the same round and author, each
\* of which alone would be admitted, and both calls have returned, exactly one
\* has returned Ok and the other an admission error.
C7_ExactlyOneConcurrentInsertSucceeds ==
    \A t1, t2 \in Threads :
        (/\ t1 # t2
         /\ threads[t1].pc = "done" /\ threads[t2].pc = "done"
         /\ AdmittedAlone(threads[t1]) /\ AdmittedAlone(threads[t2])
         /\ cert_round(threads[t1].certificate[1]) = cert_round(threads[t2].certificate[1])
         /\ cert_author(threads[t1].certificate[1]) = cert_author(threads[t2].certificate[1]))
        => {threads[t1].res, threads[t2].res} = {"Ok", "Err"}

\* C8: once the concurrent calls of insert_certificate, remove_certificate and
\* increment_committee_to_next_round have all returned, the indices agree:
\* rounds, batch_ids and the transmission references name exactly the
\* certificates held (I2, I3, I4).
C8_IndicesAgreeOnceCallsReturned ==
    AllReturned =>
        /\ C3_RoundsAgreeWithCertificates
        /\ C4_BatchIdsAgreeWithCertificates
        /\ C5_TransmissionsAgreeWithCertificates

\* The entries of an index as a set of <<key, value>> pairs.
Entries(map) == Range(map)

\* The entries of `rounds` as a set of <<round, set of triples>> pairs.
RoundEntries(rs) == {<<rs[i][1], Range(rs[i][2])>> : i \in DOMAIN rs}

\* The entries of `transmissions` as <<id, transmission, set of certificate ids>>.
TransmissionEntries(ts) == {<<ts[i][1], ts[i][2][1], Range(ts[i][2][2])>> : i \in DOMAIN ts}

\* C11: an insert_certificate(c, M) that returns Ok adds exactly the triple of
\* c to the set of its round, c under its id to `certificates`, its round
\* under its batch id to `batch_ids`, and its id to the set of each of its
\* transmissions (the entry made from M when there was none); every other
\* entry, the committees, current_round and gc_round are as they were.
C11_InsertAddsExactlyOneCertificate ==
    \A in \in InsertInputs(Store) :
        LET c == in[1]
            M == in[2]
            done == insert_certificate(Store, c, M)
            S == done.store
            round == cert_round(c)
            cid == certificate_id(c)
            before == IF Has(rounds, round) THEN Range(Get(rounds, round)) ELSE {}
            tids == Range(cert_transmission_ids(c))
        IN  done.res = "Ok" =>
              /\ Triple(c) \notin before
              /\ RoundEntries(S.rounds) =
                    {e \in RoundEntries(rounds) : e[1] # round}
                        \cup {<<round, before \cup {Triple(c)}>>}
              /\ ~Has(certificates, cid)
              /\ Entries(S.certificates) = Entries(certificates) \cup {<<cid, c>>}
              /\ ~Has(batch_ids, cert_batch_id(c))
              /\ Entries(S.batch_ids) = Entries(batch_ids) \cup {<<cert_batch_id(c), round>>}
              /\ TransmissionEntries(S.transmissions) =
                    {e \in TransmissionEntries(transmissions) : e[1] \notin tids}
                        \cup {<<tid, Get(transmissions, tid)[1],
                                Range(Get(transmissions, tid)[2]) \cup {cid}>> :
                                  tid \in {x \in tids : Has(transmissions, x)}}
                        \cup {<<tid, M[tid], {cid}>> :
                                  tid \in {x \in tids : ~Has(transmissions, x)}}
              /\ Len(S.rounds) = Cardinality(RoundEntries(S.rounds))
              /\ Len(S.certificates) = Len(certificates) + 1
              /\ Len(S.batch_ids) = Len(batch_ids) + 1
              /\ Len(S.transmissions) = Cardinality(TransmissionEntries(S.transmissions))
              /\ S.committees = committees
              /\ S.current_round = current_round
              /\ S.gc_round = gc_round

\* A certificate is admitted into a round that has certificates, sharing a
\* transmission with one held and bringing one of its own.
C11_Witness ==
    \E in \in InsertInputs(Store) :
        /\ insert_certificate(Store, in[1], in[2]).res = "Ok"
        /\ Has(rounds, cert_round(in[1]))
        /\ Len(rounds) >= 2
        /\ \E tid \in Range(cert_transmission_ids(in[1])) : Has(transmissions, tid)
        /\ \E tid \in Range(cert_transmission_ids(in[1])) : ~Has(transmissions, tid)

\* The certificate ids remove_certificate is called with: those held, those of
\* the candidates, and one of a certificate never received.
RemoveInputs(S) ==
    Keys(S.certificates) \cup {certificate_id(c) : c \in CandidateCertificates(S)}
        \cup {Ghost("E")}

\* C12: remove_certificate(cid) returns true exactly when cid is a key of
\* `certificates`; for a cid that is not, it returns false and leaves the
\* storage as it is.
C12_RemoveReportsWhetherHeld ==
    \A cid \in RemoveInputs(Store) :
        LET done == remove_certificate(Store, cid)
        IN  /\ done.res = "true" <=> Has(certificates, cid)
            /\ ~Has(certificates, cid) => done = [store |-> Store, res |-> "false"]

\* Certificates are held after a removal, and a candidate is not among them.
C12_Witness ==
    /\ removals > 0
    /\ Len(certificates) >= 2
    /\ \E cid \in RemoveInputs(Store) : ~Has(certificates, cid)

\* C13: when `rounds` has the key current_round + 1,
\* increment_committee_to_next_round returns an error and leaves current_round,
\* gc_round, the committees and the data indices as they are.
C13_AdvanceRefusedWhenNextRoundHeld ==
    Has(rounds, current_round + 1) =>
        increment_committee_to_next_round(Store) = [store |-> Store, res |-> "Err"]

\* After an advance, certificates are held for the round after the current one.
C13_Witness ==
    /\ Has(rounds, current_round + 1)
    /\ current_round > initial.current_round
    /\ Has(committees, current_round)

Max(a, b) == IF a >= b THEN a ELSE b

\* C14: an increment_committee_to_next_round that returns Ok from
\* current_round = r and gc_round = g leaves current_round = r + 1, a committee
\* for round r + 1 and gc_round = max(g, (r + 1) saturating-minus max_gc_rounds).
C14_AdvanceResult ==
    LET done == increment_committee_to_next_round(Store)
        S == done.store
        r == current_round
        g == gc_round
    IN  done.res = "Ok" =>
          /\ S.current_round = r + 1
          /\ Has(S.committees, r + 1)
          /\ Get(S.committees, r + 1).round = r + 1
          /\ S.gc_round = Max(g, saturating_sub(r + 1, max_gc_rounds))

\* After an advance that moved the GC round, the next advance moves it again
\* and is about to succeed.
C14_Witness ==
    /\ current_round > initial.current_round
    /\ gc_round > 0
    /\ increment_committee_to_next_round(Store).res = "Ok"
    /\ increment_committee_to_next_round(Store).store.gc_round > gc_round

\* C15: from one state to the next current_round and gc_round never decrease,
\* and gc_round <= current_round in every state.
C15_RoundsNeverDecrease ==
    /\ [][current_round' >= current_round /\ gc_round' >= gc_round]_vars
    /\ [](gc_round <= current_round)

\* Both rounds have moved, the current round twice.
C15_Witness ==
    /\ current_round >= initial.current_round + 2
    /\ gc_round > 0
    /\ gc_round < current_round

Rounds == 0 .. (MaxRound + 1)

\* C17: for every round r with current_round - max_gc_rounds > r, `rounds` has
\* no entry for r, no certificate held is of round r, `batch_ids` maps nothing
\* to r, there is no committee for r, and no transmission is referenced by
\* certificates of round r only.
C17_GarbageCollectedRoundsAreEmpty ==
    \A r \in Rounds :
        current_round - max_gc_rounds > r =>
            /\ ~Has(rounds, r)
            /\ \A c \in held_certificates : cert_round(c) # r
            /\ \A i \in DOMAIN batch_ids : batch_ids[i][2] # r
            /\ ~Has(committees, r)
            /\ \A i \in DOMAIN transmissions :
                   \E cid \in Range(transmissions[i][2][2]) : cert_round(cid) # r

\* Certificates are held for the GC round, with a transmission of their own, and
\* the next advance takes them for a round that it leaves behind.
C17_Witness ==
    /\ gc_round >= 1
    /\ Has(rounds, gc_round)
    /\ \E i \in DOMAIN transmissions :
           \A cid \in Range(transmissions[i][2][2]) : cert_round(cid) = gc_round
    /\ LET done == increment_committee_to_next_round(Store)
       IN  /\ done.res = "Ok"
           /\ done.store.current_round - max_gc_rounds > gc_round
           /\ ~Has(done.store.rounds, gc_round)
           /\ done.store.certificates # <<>>

\* The candidates, and certificates of every round up to the GC round with
\* nothing else wrong with them.
RetiredInputs(S) ==
    InsertInputs(S) \cup
        {<<Certified(Authors[i], r, "live", TidsOf(Authors[i]), <<>>), [t \in Tids |-> "p"]>> :
             i \in DOMAIN Authors, r \in 0 .. S.gc_round}

\* C18: insert_certificate of a certificate whose round is at or below
\* gc_round returns an error and leaves the storage as it is, whatever else
\* holds of the certificate.
C18_InsertAtOrBelowGcRoundRejected ==
    \A in \in RetiredInputs(Store) :
        cert_round(in[1]) <= gc_round =>
            LET done == insert_certificate(Store, in[1], in[2])
            IN  done.res = "Err" /\ done.store = Store

\* The GC round has moved, and a certificate of that round passes every check
\* of check_certificate.
C18_Witness ==
    /\ gc_round >= 1
    /\ certificates # <<>>
    /\ \E in \in RetiredInputs(Store) :
          /\ cert_round(in[1]) = gc_round
          /\ check_certificate(Store, in[1], in[2]).ok

\* The candidates, and the certificates held, handed over again.
DuplicateInputs(S) ==
    InsertInputs(S) \cup {<<S.certificates[i][2], [t \in Tids |-> "p"]>> : i \in DOMAIN S.certificates}

\* A certificate of the author and round of `certificate` is held.
HoldsAuthorInRound(certificate) ==
    \E h \in held_certificates :
        cert_round(h) = cert_round(certificate) /\ cert_author(h) = cert_author(certificate)

\* C19: when a certificate of author A for round r is held, insert_certificate
\* of any certificate of A for r, the one held or another, returns an error
\* (a duplicate, when r is above the GC round) and leaves the storage as it is.
C19_SecondCertificateOfAuthorRejected ==
    \A in \in DuplicateInputs(Store) :
        HoldsAuthorInRound(in[1]) =>
            LET done == insert_certificate(Store, in[1], in[2])
            IN  /\ done.res = "Err"
                /\ done.store = Store
                /\ cert_round(in[1]) > gc_round =>
                       done.err \in {"duplicate certificate id", "duplicate author in round"}

\* A certificate is held above the GC round; it is handed over again, and so is
\* another one of its author and round that nothing else is wrong with.
C19_Witness ==
    \E in, other \in DuplicateInputs(Store) :
        /\ Has(certificates, certificate_id(in[1]))
        /\ cert_round(in[1]) > gc_round
        /\ ~Has(certificates, certificate_id(other[1]))
        /\ cert_round(other[1]) = cert_round(in[1])
        /\ cert_author(other[1]) = cert_author(in[1])
        /\ insert_certificate(Store, other[1], other[2]).err = "duplicate author in round"
        /\ check_certificate_by_id_only(Store, other[1], other[2]).ok

\* The candidates, and headers that declare a certificate of the previous
\* round twice.
QuorumInputs(S) ==
    LET held == round_certificate_ids(S.rounds, S.current_round - 1, Authors)
        twice == IF held = <<>> THEN {} ELSE {<<held[1]>> \o held, <<held[1], held[1]>>}
    IN  InsertInputs(S) \cup
            {<<Certified("C", S.current_round, "live", TidsOf("C"), prev), [t \in Tids |-> "p"]>> :
                 prev \in twice}

\* The authors of the certificates held that the ids name.
previous_authors(ids) ==
    {cert_author(Get(certificates, ids[i])) : i \in {j \in DOMAIN ids : Has(certificates, ids[j])}}

\* Everything check_batch_header asks of a header but for its previous round.
HeaderFineButForPrevious(header, provided) ==
    /\ ~contains_batch(batch_ids, batch_id(header))
    /\ Has(committees, header.round)
    /\ is_committee_member(Get(committees, header.round), header.author)
    /\ check_timestamp_for_liveness(header.timestamp)
    /\ \A tid \in Range(header.transmission_ids) :
           Has(transmissions, tid) \/ tid \in DOMAIN provided

\* Every previous certificate id names a certificate held of the previous
\* round, and no two of them name one author.
PreviousAllHeld(header) ==
    LET ids == header.previous_certificate_ids
    IN  /\ \A i \in DOMAIN ids :
              /\ Has(certificates, ids[i])
              /\ cert_round(Get(certificates, ids[i])) = header.round - 1
        /\ \A i, j \in DOMAIN ids :
              cert_author(Get(certificates, ids[i])) = cert_author(Get(certificates, ids[j]))
                  => i = j

\* C20: for a header of round r with r - 1 > gc_round, check_batch_header
\* accepts only if there is a committee for r - 1, `rounds` has r - 1, every
\* previous certificate id names a certificate held of round r - 1, their
\* authors are pairwise distinct and at most num_members many, and the authors
\* reach the quorum of that committee; with the committee of four, two
\* previous authors are rejected and three are accepted.
C20_PreviousRoundQuorumRequired ==
    \A in \in QuorumInputs(Store) :
        LET header == in[1].batch_header
            ids == header.previous_certificate_ids
            prev == header.round - 1
            checked == check_batch_header(Store, header, in[2])
        IN  (header.round >= 1 /\ prev > gc_round) =>
              /\ checked.ok =>
                    /\ Has(committees, prev)
                    /\ Has(rounds, prev) /\ Get(rounds, prev) # <<>>
                    /\ PreviousAllHeld(header)
                    /\ Len(ids) <= num_members(Get(committees, prev))
                    /\ is_quorum_threshold_reached(Get(committees, prev), previous_authors(ids))
              /\ (Has(committees, prev) /\ num_members(Get(committees, prev)) = 4) =>
                    /\ Cardinality(previous_authors(ids)) <= 2 => ~checked.ok
                    /\ (/\ Cardinality(previous_authors(ids)) = 3
                        /\ PreviousAllHeld(header)
                        /\ HeaderFineButForPrevious(header, in[2])) => checked.ok

\* Three certificates are held for the previous round, which is above the GC
\* round: a header that declares the three is accepted, and one of the same
\* author that declares two of them is rejected.
C20_Witness ==
    \E in, other \in QuorumInputs(Store) :
        /\ cert_round(in[1]) - 1 > gc_round
        /\ cert_round(other[1]) = cert_round(in[1])
        /\ cert_author(other[1]) = cert_author(in[1])
        /\ Cardinality(previous_authors(in[1].batch_header.previous_certificate_ids)) = 3
        /\ check_batch_header(Store, in[1].batch_header, in[2]).ok
        /\ Len(other[1].batch_header.previous_certificate_ids) = 2
        /\ PreviousAllHeld(other[1].batch_header)
        /\ check_batch_header(Store, other[1].batch_header, other[2]).err
               = "previous certificates below quorum"

\* The maps of transmissions a caller may hand over: for both ids (with one
\* payload or two), for one of them, for none.
ProvidedMaps ==
    {[t \in Tids |-> "p"], [t \in Tids |-> IF t = "t1" THEN "p" ELSE "q"],
     [t \in {"t1"} |-> "q"], [t \in {"t2"} |-> "q"], << >>}

\* C21: when check_batch_header(header, provided) succeeds, the keys of the map
\* it returns are exactly the transmission ids of the header that
\* `transmissions` does not hold, each with its payload in `provided`; it
\* fails when a transmission id of the header is neither held nor provided;
\* what `provided` has beyond the header's ids is never returned.
C21_MissingTransmissionsReturned ==
    \A c \in CandidateCertificates(Store) : \A provided \in ProvidedMaps :
        LET header == c.batch_header
            checked == check_batch_header(Store, header, provided)
            tids == Range(header.transmission_ids)
            absent == {tid \in tids : ~Has(transmissions, tid)}
        IN  /\ checked.ok =>
                  /\ DOMAIN checked.missing = absent
                  /\ \A tid \in absent : checked.missing[tid] = provided[tid]
            /\ ~(absent \subseteq DOMAIN provided) => ~checked.ok

\* A header with one transmission held and one not is accepted with both
\* provided, and refused with only the held one provided.
C21_Witness ==
    \E c \in CandidateCertificates(Store) :
        LET header == c.batch_header
            both == [t \in Tids |-> IF t = "t1" THEN "p" ELSE "q"]
        IN  /\ Len(header.transmission_ids) = 2
            /\ Has(transmissions, "t2") /\ ~Has(transmissions, "t1")
            /\ check_batch_header(Store, header, both).ok
            /\ DOMAIN check_batch_header(Store, header, both).missing = {"t1"}
            /\ check_batch_header(Store, header, [t \in {"t2"} |-> "q"]).err
                   = "missing transmission"

\* C22: check_batch_header and check_certificate fail for every header whose
\* round has no committee and for every header whose round is at or below
\* gc_round (stated for the storages built from a committee of round 1 or
\* later, where a header of round 0 has no committee).
C22_UnknownAndPurgedRoundsRejected ==
    \A in \in RetiredInputs(Store) :
        LET round == cert_round(in[1])
        IN  (/\ initial.current_round >= 1
             /\ ~Has(committees, round) \/ round <= gc_round) =>
                /\ ~check_batch_header(Store, in[1].batch_header, in[2]).ok
                /\ ~check_certificate(Store, in[1], in[2]).ok

\* C23: between the operations of a sequential execution, every round that is
\* a key of `rounds` has a committee.
C23_RoundsHaveCommittees ==
    \A i \in DOMAIN rounds : Has(committees, rounds[i][1])

\* Garbage collection has taken the committee the storage was built with, and
\* certificates are held for two rounds.
C23_Witness ==
    /\ ~Has(committees, initial.current_round)
    /\ Len(rounds) >= 2

\* A call of remove_certificate(cid) has been made, by a thread or by the
\* garbage collection of a thread.
RemovalOf(cid) ==
    \E t \in Threads :
        \/ threads[t].op = "remove_certificate" /\ threads[t].cid = <<cid>>
        \/ cid \in threads[t].collected

\* What a reader of the four indices sees of a certificate.
SeesInCertificates(c) == contains_certificate(certificates, certificate_id(c))

SeesInRounds(c) ==
    Has(rounds, cert_round(c)) /\ Triple(c) \in Range(Get(rounds, cert_round(c)))

SeesInBatchIds(c) == get_round_for_batch(batch_ids, cert_batch_id(c)) = <<cert_round(c)>>

SeesInTransmissions(c) ==
    \A tid \in Range(cert_transmission_ids(c)) :
        /\ contains_transmission(transmissions, tid)
        /\ certificate_id(c) \in Range(Get(transmissions, tid)[2])

\* C24: while a thread inserts a certificate and no removal of it runs, a
\* reader that sees the certificate in `certificates` sees its triple in
\* `rounds`; once the insert has returned Ok the reader also sees its batch id
\* in `batch_ids` and its id in the set of each of its transmissions.
C24_ReadersSeeInsertInOrder ==
    \A t \in Threads :
        (/\ threads[t].op = "insert_certificate"
         /\ ~RemovalOf(certificate_id(threads[t].certificate[1]))) =>
            LET c == threads[t].certificate[1]
            IN  /\ SeesInCertificates(c) => SeesInRounds(c)
                /\ (threads[t].pc = "done" /\ threads[t].res = "Ok") =>
                       /\ SeesInCertificates(c) /\ SeesInRounds(c)
                       /\ SeesInBatchIds(c) /\ SeesInTransmissions(c)

\* An insert has written `certificates` and not yet `batch_ids`, while the
\* other thread is in a call that is not a removal of the certificate.
C24_Witness ==
    \E t, u \in Threads :
        /\ t # u
        /\ threads[t].pc = "insert_batch_ids"
        /\ ~RemovalOf(certificate_id(threads[t].certificate[1]))
        /\ SeesInCertificates(threads[t].certificate[1])
        /\ ~SeesInBatchIds(threads[t].certificate[1])
        /\ threads[u].pc \notin {"idle", "done"}
        /\ threads[u].op \in {"remove_certificate", "increment_committee_to_next_round"}

\* The places where a thread asks for the lock of an index.
WaitsForRounds ==
    {"check_author", "check_previous_round", "insert_rounds", "remove_rounds",
     "ensure_no_certificates", "gc_certificates_for_round"}

WaitsForCertificates ==
    {"check_certificate", "check_previous_certificate", "insert_certificates",
     "remove_certificate", "remove_certificates", "gc_read_certificates"}

\* A thread is inside a call.
InCall(t) == threads[t].pc \notin {"idle", "done"}

\* C25: a thread that holds the lock of `rounds` waits for the lock of
\* `certificates`, which comes after it in the order rounds, certificates,
\* batch_ids, transmissions, and for no other; and under fair scheduling
\* every call a thread has started comes to its end (no thread waits for ever).
C25_LockOrderAndNoDeadlock ==
    /\ [](\A t \in rounds_readers :
              /\ threads[t].pc \in WaitsForCertificates
              /\ threads[t].pc \notin WaitsForRounds)
    /\ \A t \in Threads : InCall(t) ~> threads[t].pc = "done"

\* A thread waits for the write lock of `rounds` while the garbage collection
\* of the other holds its read lock.
C25_Witness ==
    \E t, u \in Threads :
        /\ t # u
        /\ threads[t].pc \in {"insert_rounds", "remove_rounds"}
        /\ u \in rounds_readers
        /\ threads[u].pc = "gc_read_certificates"

\* current_committee() of a thread hit the `expect`: no committee for the round
\* it loaded from current_round.
CurrentCommitteeAborted(t) ==
    /\ threads[t].op = "increment_committee_to_next_round"
    /\ threads[t].pc = "done"
    /\ threads[t].res = "abort"

\* C26: at every instant, also while another thread advances the round,
\* committees has an entry for the value of current_round, and no call of
\* current_committee() aborts.
C26_CurrentCommitteeAlwaysHeld ==
    /\ Has(committees, current_round)
    /\ \A t \in Threads : ~CurrentCommitteeAborted(t)

\* Previous certificate ids that fail every check of the previous round: none
\* (no quorum), an unknown one, and more unknown ones than there are members.
ForgivenPrevious == {<<>>, <<Ghost("E")>>, Ghosts}

\* The candidates, and headers of the rounds up to the one after the GC round
\* with such previous certificate ids.
ForgivenInputs(S) ==
    InsertInputs(S) \cup
        {<<Certified(Authors[i], r, "live", TidsOf(Authors[i]), prev), provided>> :
             i \in DOMAIN Authors, r \in 0 .. (S.gc_round + 1), prev \in ForgivenPrevious,
             provided \in {[t \in Tids |-> "p"], << >>}}

\* C27: for a header of round r whose previous round, r - 1 or 0 for r = 0, is
\* at or below gc_round, check_batch_header makes no check of the previous
\* round: it accepts whenever the batch id is new, the round has a committee,
\* the author is a member, the timestamp is live and every transmission is
\* held or provided, whatever the previous certificate ids are.
C27_PreviousRoundForgivenUpToGcRound ==
    \A in \in ForgivenInputs(Store) :
        LET header == in[1].batch_header
        IN  /\ saturating_sub(header.round, 1) \in Nat
            /\ (/\ saturating_sub(header.round, 1) <= gc_round
                /\ HeaderFineButForPrevious(header, in[2]))
                   => check_batch_header(Store, header, in[2]).ok

\* After an advance of the GC round, a header of the round after it is accepted
\* with five unknown previous certificate ids, and one of the GC round with one.
C27_Witness ==
    /\ gc_round >= 1
    /\ certificates # <<>>
    /\ \E in \in ForgivenInputs(Store) :
          /\ cert_round(in[1]) = gc_round + 1
          /\ in[1].batch_header.previous_certificate_ids = Ghosts
          /\ check_batch_header(Store, in[1].batch_header, in[2]).ok
    /\ \E in \in ForgivenInputs(Store) :
          /\ cert_round(in[1]) = gc_round
          /\ in[1].batch_header.previous_certificate_ids = <<Ghost("E")>>
          /\ check_batch_header(Store, in[1].batch_header, in[2]).ok

\* C28: check_certificate accepts a certificate, returning a map X, only if in
\* the same state check_batch_header accepts its header and returns X, the
\* certificate id is not held, the author has no certificate held in the round,
\* every signer is a member of the committee of the round, and the author
\* together with the signers reaches the quorum of that committee.
C28_CheckCertificateImpliesAllRules ==
    \A in \in DuplicateInputs(Store) \cup QuorumInputs(Store) :
        LET certificate == in[1]
            round == cert_round(certificate)
            done == check_certificate(Store, certificate, in[2])
        IN  done.ok =>
                /\ check_batch_header(Store, certificate.batch_header, in[2]) = done
                /\ ~Has(certificates, certificate_id(certificate))
                /\ ~HoldsAuthorInRound(certificate)
                /\ Has(committees, round)
                /\ \A s \in cert_signers(certificate) :
                       is_committee_member(Get(committees, round), s)
                /\ is_quorum_threshold_reached(Get(committees, round),
                       {cert_author(certificate)} \cup cert_signers(certificate))

\* With certificates held, one candidate is accepted, and others whose header
\* is accepted are refused: one for a signer outside the committee, one for
\* signers below the quorum, one for the author's certificate held.
C28_Witness ==
    /\ certificates # <<>>
    /\ \E in \in InsertInputs(Store) : check_certificate(Store, in[1], in[2]).ok
    /\ \E in \in InsertInputs(Store) :
          /\ check_batch_header(Store, in[1].batch_header, in[2]).ok
          /\ check_certificate(Store, in[1], in[2]).err = "signer not a member"
    /\ \E in \in InsertInputs(Store) :
          /\ check_batch_header(Store, in[1].batch_header, in[2]).ok
          /\ check_certificate(Store, in[1], in[2]).err = "signers below quorum"
    /\ \E in \in DuplicateInputs(Store) :
          /\ check_batch_header(Store, in[1].batch_header, in[2]).ok
          /\ check_certificate(Store, in[1], in[2]).err = "duplicate author in round"

\* What an iterator over a map yields, as the sequence of the keys.
KeysInOrder(m) == [i \in DOMAIN m |-> m[i][1]]

\* before and after are sequences without repetition: what is in both comes in
\* `after` in the order it has in `before`, and what is new comes behind it.
OrderKept(before, after) ==
    LET place(e) == CHOOSE k \in DOMAIN before : before[k] = e
        old(e) == e \in Range(before)
    IN  \A i, j \in DOMAIN after :
            i < j => /\ old(after[i]) /\ old(after[j]) => place(after[i]) < place(after[j])
                     /\ old(after[j]) => old(after[i])

\* The iterators of storage `T` yield what was in storage `S` in the order it
\* had there, and what was inserted since behind it.
IterationOrderKept(S, T) ==
    /\ OrderKept(KeysInOrder(S.rounds), KeysInOrder(T.rounds))
    /\ OrderKept(KeysInOrder(S.certificates), KeysInOrder(T.certificates))
    /\ OrderKept(KeysInOrder(S.batch_ids), KeysInOrder(T.batch_ids))
    /\ \A r \in Keys(S.rounds) \cap Keys(T.rounds) :
           OrderKept(Get(S.rounds, r), Get(T.rounds, r))
    /\ \A tid \in Keys(S.transmissions) \cap Keys(T.transmissions) :
           OrderKept(Get(S.transmissions, tid)[2], Get(T.transmissions, tid)[2])

\* C29: sequentially, every insert_certificate, remove_certificate and
\* increment_committee_to_next_round leaves the entries that survive it in the
\* order the iterators over rounds, certificates, batch_ids, the triples of a
\* round and the certificate ids of a transmission had, and puts new entries
\* last: the iterators yield the surviving entries in insertion order, also
\* after the removal of an entry that is not the last.
C29_IteratorsYieldInsertionOrder ==
    /\ \A in \in InsertInputs(Store) :
           IterationOrderKept(Store, insert_certificate(Store, in[1], in[2]).store)
    /\ \A cid \in RemoveInputs(Store) :
           IterationOrderKept(Store, remove_certificate(Store, cid).store)
    /\ IterationOrderKept(Store, increment_committee_to_next_round(Store).store)

\* C30: sequentially and for every max_gc_rounds, 0 too, after every completed
\* operation there is a committee for current_round: the garbage collection
\* never removes it, no operation has aborted, and neither current_committee()
\* nor the next increment_committee_to_next_round aborts.
C30_CurrentCommitteeSurvivesGc ==
    /\ get_committee(committees, current_round) # <<>>
    /\ ~aborted
    /\ increment_committee_to_next_round(Store).res # "abort"

\* With max_gc_rounds = 0 the round has advanced twice: the garbage collection
\* has run up to the current round, whose committee is the only one left.
C30_Witness ==
    /\ max_gc_rounds = 0
    /\ current_round >= initial.current_round + 2
    /\ gc_round = current_round
    /\ Keys(committees) = {current_round}

C32_NoCertificateAboveCurrentRound ==
    /\ \A r \in data_rounds : r <= current_round
    /\ \A in \in InsertInputs(Store) :
           insert_certificate(Store, in[1], in[2]).res = "Ok" =>
               cert_round(in[1]) <= current_round
    /\ ~contains_certificates_for_round(rounds, current_round + 1)
    /\ increment_committee_to_next_round(Store).res = "Ok"

\* Certificates are held, the round has advanced, and a certificate of the
\* next round that the previous-round checks would let through (its previous
\* round is at or below the GC round, or its previous certificates reach the
\* quorum) is refused for want of a committee.
C32_Witness ==
    /\ certificates # <<>>
    /\ current_round > initial.current_round
    /\ \E in \in InsertInputs(Store) :
          /\ cert_round(in[1]) = current_round + 1
          /\ check_certificate(Store, in[1], in[2]).err = "missing committee"
          /\ check_certificate(
                 [Store EXCEPT !.committees = Put(committees, current_round + 1,
                                                  Committee(current_round + 1))],
                 in[1], in[2]).ok

\* The four indices of a storage hold nothing.
IndicesEmpty(S) ==
    /\ S.rounds = <<>>
    /\ S.certificates = <<>>
    /\ S.batch_ids = <<>>
    /\ S.transmissions = <<>>

\* C33: with max_gc_rounds = 0, sequentially, once
\* increment_committee_to_next_round has returned Ok, rounds, certificates,
\* batch_ids and transmissions are empty, committees holds current_round
\* alone, and every insert_certificate is refused and changes nothing; the
\* advance itself leaves the storage so, whatever it held.
C33_ZeroGcRoundsAdvanceClearsAll ==
    max_gc_rounds = 0 =>
        /\ current_round > initial.current_round =>
               /\ IndicesEmpty(Store)
               /\ Keys(committees) = {current_round}
               /\ \A in \in InsertInputs(Store) :
                      LET done == insert_certificate(Store, in[1], in[2])
                      IN  done.res = "Err" /\ done.store = Store
        /\ LET done == increment_committee_to_next_round(Store)
           IN  done.res = "Ok" =>
                   /\ IndicesEmpty(done.store)
                   /\ Keys(done.store.committees) = {done.store.current_round}

\* With max_gc_rounds = 0, certificates and transmissions are held and the
\* advance returns Ok; after it a certificate of the current round that
\* passes check_certificate is handed over.
C33_Witness ==
    /\ max_gc_rounds = 0
    /\ Len(certificates) >= 2
    /\ transmissions # <<>>
    /\ LET done == increment_committee_to_next_round(Store)
       IN  /\ done.res = "Ok"
           /\ \E in \in InsertInputs(done.store) :
                  /\ cert_round(in[1]) = done.store.current_round
                  /\ check_certificate(done.store, in[1], in[2]).ok

\* C34: when an insert_certificate runs together with an
\* increment_committee_to_next_round, once both have returned no certificate
\* is held for a round below gc_round and every round of `rounds` has a
\* committee, however their steps interleave.
C34_InsertDuringAdvanceNotLeftBehind ==
    (\E t, u \in Threads :
        /\ threads[t].op = "insert_certificate" /\ Returned(t)
        /\ threads[u].op = "increment_committee_to_next_round" /\ Returned(u))
    => /\ \A r \in data_rounds : r >= gc_round
       /\ \A r \in Keys(rounds) : Has(committees, r)

\* Both threads have called increment_committee_to_next_round and returned;
\* `oks` of the calls returned Ok, the others an error.
BothAdvancesReturned(oks) ==
    /\ \A t \in Threads :
           /\ threads[t].op = "increment_committee_to_next_round"
           /\ threads[t].pc = "done"
           /\ threads[t].res \in {"Ok", "Err"}
    /\ Cardinality({t \in Threads : threads[t].res = "Ok"}) = oks

\* C35: when two threads call increment_committee_to_next_round together from
\* current_round = r, each call that returns Ok has advanced the round by one
\* of its own and a call that returns an error has changed nothing: after two
\* Ok current_round = r + 2 and the committees of r + 1 and r + 2 were stored,
\* after one Ok the storage is as one advance leaves it, after none as it was.
C35_EachOkAdvanceCountsOnce ==
    LET r == initial.current_round
    IN  /\ BothAdvancesReturned(2) =>
               /\ current_round = r + 2
               /\ \A g \in {r + 1, r + 2} : Has(committees, g) \/ g < gc_round
        /\ BothAdvancesReturned(1) => Store = increment_committee_to_next_round(initial).store
        /\ BothAdvancesReturned(0) => Store = initial

====
